---- MODULE Spec2Model ----
(***************************************************************************)
(* A model of the WebSocket relay of functions/ws/handler.ts: the          *)
(* connection registry (a DynamoDB table), the delivery client             *)
(* (PostToConnection), the SQS broadcast fan-out and the session router;   *)
(* and of the two handlers of the deployment, the authorizer               *)
(* (functions/ws/authorizer.ts) and the custom resource that binds it to   *)
(* the $connect route (functions/ws/update-route.ts).                      *)
(*                                                                         *)
(* JavaScript values are records tagged by type (field t).  Text that the  *)
(* code inspects character by character (the endpoint URLs) is a sequence  *)
(* of characters; text that it only parses or concatenates is a string.    *)
(*                                                                         *)
(* Every await on DynamoDB or on the gateway is a step of its own where    *)
(* another invocation can come in between: a task of the fan-out goes      *)
(* sending -> purging -> deleting -> settled.  The specifications share    *)
(* the actions: SpecBroadcast (broadcasts alone, over every batch),        *)
(* SpecSession (session events alone, over every event), Spec (a           *)
(* broadcast and session events running concurrently), SpecMixed (the      *)
(* same from an empty registry, with events of every route and of no       *)
(* known shape), SpecLive (broadcasts under fair scheduling), SpecControl  *)
(* (the authorizer and the custom resource, with the relay idle) and       *)
(* SpecQueue (the publish queue, its event source and its dead-letter      *)
(* queue).                                                                 *)
(***************************************************************************)
EXTENDS Integers, Sequences, FiniteSets, TLC

\* Bounds of the model.
MaxBatch == 2
MaxTime == 1

ConnIds == {"A", "B"}

---------------------------------------------------------------------------
\* JavaScript values

JUndef == [t |-> "undefined"]
JNull == [t |-> "null"]
JStr(s) == [t |-> "string", v |-> s]
JNum(n) == [t |-> "number", v |-> n]
JObj(f) == [t |-> "object", f |-> f]

NoFields == [k \in {} |-> JUndef]

\* !v of JavaScript: undefined, null, 0 and "" are falsy.
Falsy(v) ==
    \/ v.t \in {"undefined", "null"}
    \/ v.t = "number" /\ v.v = 0
    \/ v.t = "string" /\ v.v = ""

\* v.k: a TypeError on null and undefined, undefined when v has no such property.
Throws(v) == v.t \in {"undefined", "null"}

Prop(v, k) ==
    IF v.t = "object" /\ k \in DOMAIN v.f THEN v.f[k] ELSE JUndef

\* a || b
OrElse(a, b) == IF Falsy(a) THEN b ELSE a

SyntaxError == [t |-> "SyntaxError"]

\* JSON.parse on the texts the model sends: the value, or SyntaxError.
JSONParse(s) ==
    CASE s = "{}" -> JObj(NoFields)
      [] s = "null" -> JNull
      [] s = "5" -> JNum(5)
      [] s = "{\"action\":\"ping\"}" -> JObj([action |-> JStr("ping")])
      [] s = "{\"action\":\"echo\"}" -> JObj([action |-> JStr("echo")])
      [] s = "{\"data\":\"x\"}" -> JObj([data |-> JStr("x")])
      [] s = "{\"data\":0,\"msg\":\"hi\"}" -> JObj([data |-> JNum(0), msg |-> JStr("hi")])
      [] s = "{\"msg\":\"hi\"}" -> JObj([msg |-> JStr("hi")])
      [] OTHER -> SyntaxError

\* The property names of the model's objects, in insertion order.
KeyOrder == <<"action", "data", "msg", "text">>

NumText(n) ==
    CASE n = 0 -> "0"
      [] n = 5 -> "5"
      [] OTHER -> "?"

RECURSIVE JSONStringify(_)
RECURSIVE Members(_, _, _)
Members(f, i, first) ==
    IF i > Len(KeyOrder) THEN ""
    ELSE IF KeyOrder[i] \in DOMAIN f
         THEN (IF first THEN "" ELSE ",") \o "\"" \o KeyOrder[i] \o "\":"
                  \o JSONStringify(f[KeyOrder[i]]) \o Members(f, i + 1, FALSE)
         ELSE Members(f, i + 1, first)

JSONStringify(v) ==
    CASE v.t = "null" -> "null"
      [] v.t = "number" -> NumText(v.v)
      [] v.t = "string" -> "\"" \o v.v \o "\""
      [] v.t = "object" -> "{" \o Members(v.f, 1, TRUE) \o "}"

---------------------------------------------------------------------------
\* Text as characters

Wss == <<"w", "s", "s", ":", "/", "/">>
Https == <<"h", "t", "t", "p", "s", ":", "/", "/">>

StartsWith(s, p) == Len(s) >= Len(p) /\ SubSeq(s, 1, Len(p)) = p
Substring(s, n) == SubSeq(s, n + 1, Len(s))

Domains == {<<"d", "1">>, <<"d", "2">>}
Stages == {<<"p">>}

\* process.env.WEBSOCKET_ENDPOINT || '': unset, as the stack sets it, or https.
Endpoints == {<< >>, Wss \o <<"d", "1", "/", "p">>, Https \o <<"d", "1", "/", "p">>}

---------------------------------------------------------------------------
VARIABLES
    websocketEndpoint,  \* the module constant websocketEndpoint (handler.ts:8)
    table,              \* the connections table: a set of marshalled items
    now,                \* the clock, in milliseconds
    live,               \* the connections the gateway still holds open
    sqsPc,              \* the SQS invocation: idle, loop, fanout, done, failed
    records,            \* the bodies of event.Records the for loop has not got past
    connectionData,     \* the ids the enumeration returned for this record
    postData,           \* the payload derived from this record
    task,               \* per connection id, the delivery call of its postCalls task
    sqsPosts,           \* the PostToConnection commands issued for this record
    scans,              \* how each enumeration of this invocation ended, in order
    raced,              \* per id: a put for it was applied during its delivery call
    wsPc,               \* the session invocation: idle, ping (in handlePingRoute), done
    wsConn,             \* connectionId handlePingRoute was called with
    wsCall,             \* handlePingRoute's delivery call
    wsEvent,            \* the session event last dispatched (history)
    wsResp,             \* the response last returned
    wsWrite,            \* what became of that event's put or delete: none, ok, failed
    wsPosts,            \* the PostToConnection commands issued for that event
    authEvent,          \* the request the authorizer was last invoked with
    authResp,           \* the policy the authorizer returned for it
    routes,             \* the routes of the WebSocket API, as API Gateway holds them
    cfnEvent,           \* the custom resource event update-route was last invoked with
    cfnResp,            \* the response update-route returned for it
    cfnCalls,           \* the API Gateway calls update-route made for it, in order
    qWhere,             \* per message of the publish queue: unsent, queued, inflight,
                        \* deleted, dlq
    qReceives,          \* per message, its receive count at the queue
    qHanded,            \* per message, how many invocations of the handler it was in
    qFailed             \* per message, how many of these failed or timed out

envVars == <<websocketEndpoint, table, now, live>>
sqsVars == <<sqsPc, records, connectionData, postData, task, sqsPosts, scans>>
wsVars == <<wsPc, wsConn, wsCall, wsEvent, wsResp, wsWrite, wsPosts>>
relayVars == <<envVars, sqsVars, wsVars, raced>>
ctlVars == <<authEvent, authResp, routes, cfnEvent, cfnResp, cfnCalls>>
queueVars == <<qWhere, qReceives, qHanded, qFailed>>
vars == <<relayVars, ctlVars, queueVars>>

---------------------------------------------------------------------------
\* DynamoDB (functions/lib/ddb.ts) and the marshalling of items

ONE_YEAR_IN_SECONDS == 365 * 24 * 60 * 60

Marshall(o) ==
    [k \in DOMAIN o |-> IF o[k].t = "number" THEN [N |-> o[k].v] ELSE [S |-> o[k].v]]

Unmarshall(item) ==
    [k \in DOMAIN item |->
        IF DOMAIN item[k] = {"N"} THEN JNum(item[k].N) ELSE JStr(item[k].S)]

\* A put that adds the item beside the one with its key.
PutItemBeside(tbl, item) == tbl \cup {item}

\* PutItemCommand: the item replaces the one with its key, if any.
PutItem(tbl, item) ==
    {i \in tbl : i.connectionId # item.connectionId} \cup {item}

\* DeleteItemCommand: the item with that key is removed; no error when there is none.
DeleteItem(tbl, key) ==
    {i \in tbl : i.connectionId # key.connectionId}

\* The orders in which a ScanCommand can return the items.
ScanItems(tbl) ==
    {s \in [1..Cardinality(tbl) -> tbl] : \A i, j \in DOMAIN s : i # j => s[i] # s[j]}

Keys(tbl) == {Unmarshall(i).connectionId.v : i \in tbl}

StoredItem(connectionId, ms) ==
    Marshall([connectionId |-> JStr(connectionId),
              \* toISOString(): the text of the instant, kept as its milliseconds
              connectedAt |-> [t |-> "string", v |-> ms],
              ttl |-> JNum((ms \div 1000) + ONE_YEAR_IN_SECONDS)])

ConnectionKey(connectionId) == Marshall([connectionId |-> JStr(connectionId)])

---------------------------------------------------------------------------
\* The session and broadcast inputs

BroadcastBodies ==
    {"hello", "null", "{\"data\":\"x\"}", "{\"msg\":\"hi\"}", "{\"data\":0,\"msg\":\"hi\"}"}

Batches == UNION {[1..n -> BroadcastBodies] : n \in 1..MaxBatch}

SessionBodies ==
    {JUndef, JStr(""), JStr("hello"), JStr("null"), JStr("5"),
     JStr("{\"action\":\"ping\"}"), JStr("{\"action\":\"echo\"}")}

RouteKeys == {"$connect", "$disconnect", "ping", "$default", "foo", "bar"}

Event(c, r, d, s, b) ==
    [connectionId |-> c, routeKey |-> r, domainName |-> d, stage |-> s, body |-> b]

\* A frame's body reaches the handler on the routes a client can send frames to.
Events ==
    {Event(c, r, d, s, JUndef) : c \in ConnIds, r \in RouteKeys, d \in Domains, s \in Stages}
    \cup {Event(c, "$default", d, s, b) :
              c \in ConnIds, d \in Domains, s \in Stages, b \in SessionBodies}

Response(code, text) == [statusCode |-> code, body |-> text]
NoResponse == Response(0, "")

---------------------------------------------------------------------------
\* The delivery client: sendMessageToClient and removeStaleConnection

\* A call of sendMessageToClient: where it stands (idle, skipped, sending,
\* purging, deleting, settled), what client.send answered, what became of the
\* purge's delete, how the call ended and the error it threw.
NoCall == [at |-> "idle", outcome |-> "none", del |-> "none", ended |-> "none", error |-> "none"]
Sending == [NoCall EXCEPT !.at = "sending"]
Skipped == [NoCall EXCEPT !.at = "skipped", !.ended = "return"]

InFlight == {"sending", "purging", "deleting"}
Settled == {"skipped", "settled"}

\* The PostToConnectionCommand sendMessageToClient builds and sends.
Post(endpoint, connectionId, message) ==
    [endpoint |-> endpoint, ConnectionId |-> connectionId, Data |-> JSONStringify(message)]

\* A catch that takes every failure of client.send for a gone connection.
ClassifyEveryFailureGone(outcome) == IF outcome = "ok" THEN "return" ELSE "purge"

\* How sendMessageToClient goes on after client.send: it returns, it calls
\* removeStaleConnection, or it throws the error to its caller.
Classify(outcome) ==
    IF outcome = "ok" THEN "return"
    ELSE IF outcome = "GoneException" THEN "purge"
    ELSE "throw"

\* The call once client.send has answered.
AfterSend(call, outcome) ==
    CASE Classify(outcome) = "return" ->
            [call EXCEPT !.at = "settled", !.outcome = outcome, !.ended = "return"]
      [] Classify(outcome) = "purge" ->
            [call EXCEPT !.at = "purging", !.outcome = outcome]
      [] OTHER ->
            [call EXCEPT !.at = "settled", !.outcome = outcome, !.ended = "throw",
                         !.error = outcome]

\* A purge whose delete names no item of the table.
StaleDeleteNothing(tbl, connectionId, ok) == tbl

\* removeStaleConnection's deleteItem, applied to the table or failed.
StaleDelete(tbl, connectionId, ok) ==
    IF ok THEN DeleteItem(tbl, ConnectionKey(connectionId)) ELSE tbl

AfterDelete(call, ok) ==
    [call EXCEPT !.at = "deleting", !.del = IF ok THEN "ok" ELSE "failed"]

\* removeStaleConnection without its try/catch: a failed delete is thrown.
StaleEndsUncaught(del) == IF del = "failed" THEN "throw" ELSE "return"

\* How removeStaleConnection ends: its catch logs a failed delete and returns.
StaleEnds(del) == "return"

\* The call once removeStaleConnection has ended: the await in the catch of
\* sendMessageToClient returns, or throws what removeStaleConnection throws.
AfterPurge(call) ==
    IF StaleEnds(call.del) = "return"
    THEN [call EXCEPT !.at = "settled", !.ended = "return"]
    ELSE [call EXCEPT !.at = "settled", !.ended = "throw", !.error = "DeleteFailed"]

---------------------------------------------------------------------------
\* The gateway and the clock

\* The gateway opens a session for a connection id.
Open(c) ==
    /\ c \notin live
    /\ live' = live \cup {c}
    /\ UNCHANGED <<ctlVars, queueVars, websocketEndpoint, table, now, sqsVars, wsVars, raced>>

\* The gateway closes a session, whether or not a $disconnect event follows.
Close(c) ==
    /\ c \in live
    /\ live' = live \ {c}
    /\ UNCHANGED <<ctlVars, queueVars, websocketEndpoint, table, now, sqsVars, wsVars, raced>>

Tick ==
    /\ now < MaxTime * 1500
    /\ now' = now + 1500
    /\ UNCHANGED <<ctlVars, queueVars, websocketEndpoint, table, live, sqsVars, wsVars, raced>>

\* What PostToConnection to c can answer: GoneException when the gateway no
\* longer holds the connection, and any call can fail otherwise.
PostOutcomes(c) == IF c \in live THEN {"ok", "error"} ELSE {"GoneException", "error"}

---------------------------------------------------------------------------
\* The broadcast fan-out: handler and handleSQSEvent

\* handler (an SQS event) calls handleSQSEvent, which enters its for loop.
SqsInvoke(batch) ==
    /\ sqsPc \in {"idle", "done", "failed"}
    /\ sqsPc' = "loop"
    /\ records' = batch
    /\ connectionData' = << >>
    /\ postData' = JUndef
    /\ task' = [c \in ConnIds |-> NoCall]
    /\ sqsPosts' = << >>
    /\ scans' = << >>
    /\ UNCHANGED <<ctlVars, queueVars, envVars, wsVars, raced>>

\* getConnections: the connectionId of every item of the scan, in its order.
GetConnections(items) == [i \in DOMAIN items |-> Unmarshall(items[i]).connectionId.v]

\* A catch that keeps the raw body as it is, without wrapping it.
MessageBodyRaw(body) ==
    IF JSONParse(body) = SyntaxError THEN JStr(body) ELSE JSONParse(body)

\* The record's body parsed, or wrapped as {text: body} when it is not JSON.
MessageBody(body) ==
    IF JSONParse(body) = SyntaxError THEN JObj([text |-> JStr(body)]) ELSE JSONParse(body)

\* messageBody.data || messageBody
PostData(messageBody) == OrElse(Prop(messageBody, "data"), messageBody)

\* wss:// becomes https:// for the management API.
ManagementEndpoint(endpoint) ==
    IF StartsWith(endpoint, Wss) THEN Https \o Substring(endpoint, 6) ELSE endpoint

\* The postCalls of one record: no call when the endpoint is not configured,
\* else one sendMessageToClient per enumerated id, all started by the map.
LaunchTasks(conns) ==
    [c \in ConnIds |->
        IF \E i \in DOMAIN conns : conns[i] = c
        THEN (IF websocketEndpoint = << >> THEN Skipped ELSE Sending)
        ELSE NoCall]

\* A map that starts a delivery for the first enumerated id only.
LaunchPostsToFirst(conns, data) ==
    IF websocketEndpoint = << >> THEN << >>
    ELSE <<Post(ManagementEndpoint(websocketEndpoint), conns[1], data)>>

LaunchPosts(conns, data) ==
    IF websocketEndpoint = << >> THEN << >>
    ELSE [i \in DOMAIN conns |-> Post(ManagementEndpoint(websocketEndpoint), conns[i], data)]

\* `continue`: the loop goes to the next record.
SkipRecord ==
    /\ sqsPc' = "loop"
    /\ records' = Tail(records)
    /\ connectionData' = << >>
    /\ postData' = JUndef
    /\ task' = [c \in ConnIds |-> NoCall]
    /\ sqsPosts' = << >>
    /\ UNCHANGED raced

\* An error reaches the outer catch of handleSQSEvent, which rethrows it: the
\* invocation fails with this record and the rest of the batch unprocessed.
Rethrow ==
    /\ sqsPc' = "failed"
    /\ connectionData' = << >>
    /\ postData' = JUndef
    /\ task' = [c \in ConnIds |-> NoCall]
    /\ sqsPosts' = << >>
    /\ UNCHANGED <<records, raced>>

\* A loop without the catch around getConnections.
ScanErrorUncaught == FALSE

\* The catch around getConnections logs the error of the scan and continues.
ScanErrorCaught == TRUE

\* One pass of the for loop up to the start of its deliveries: the scan, the
\* parse of the body, the payload, and the map that starts every delivery.
SqsScan ==
    /\ sqsPc = "loop"
    /\ records # << >>
    /\ \/ /\ scans' = Append(scans, "failed")            \* the scan failed
          /\ IF ScanErrorCaught THEN SkipRecord ELSE Rethrow
       \/ \E items \in ScanItems(table) :
            LET conns == GetConnections(items)
                messageBody == MessageBody(Head(records))
            IN  /\ scans' = Append(scans, "ok")
                /\ IF Len(conns) = 0 THEN SkipRecord
                   ELSE IF Throws(messageBody)
                   THEN \* messageBody.data is a TypeError: handleSQSEvent rethrows it
                        /\ sqsPc' = "failed"
                        /\ connectionData' = conns
                        /\ postData' = JUndef
                        /\ task' = [c \in ConnIds |-> NoCall]
                        /\ sqsPosts' = << >>
                        /\ UNCHANGED <<records, raced>>
                   ELSE /\ sqsPc' = "fanout"
                        /\ connectionData' = conns
                        /\ postData' = PostData(messageBody)
                        /\ task' = LaunchTasks(conns)
                        /\ sqsPosts' = LaunchPosts(conns, PostData(messageBody))
                        /\ raced' = [c \in ConnIds |->
                                        raced[c] /\ ~(\E i \in DOMAIN conns : conns[i] = c)]
                        /\ records' = Tail(records)
    /\ UNCHANGED <<ctlVars, queueVars, envVars, wsVars>>

\* A task without its try/catch: what its delivery throws rejects Promise.all.
TaskRejectsUncaught(call) == call.ended = "throw"

\* The try/catch of a task: what its sendMessageToClient throws is logged and
\* the task's promise resolves, so Promise.all never rejects.
TaskRejects(call) == FALSE

\* handleSQSEvent after a task's delivery call has ended.
AfterTask(call) == IF TaskRejects(call) THEN "failed" ELSE "fanout"

\* client.send of one task answers.
SqsSendReply(c) ==
    /\ sqsPc = "fanout"
    /\ task[c].at = "sending"
    /\ \E outcome \in PostOutcomes(c) :
           /\ task' = [task EXCEPT ![c] = AfterSend(task[c], outcome)]
           /\ sqsPc' = IF AfterSend(task[c], outcome).at = "settled"
                        THEN AfterTask(AfterSend(task[c], outcome)) ELSE sqsPc
    /\ UNCHANGED <<ctlVars, queueVars, envVars, wsVars, records, connectionData, postData, sqsPosts, scans,
                   raced>>

\* removeStaleConnection's deleteItem reaches the table, or fails.
SqsDelete(c) ==
    /\ sqsPc = "fanout"
    /\ task[c].at = "purging"
    /\ \E ok \in BOOLEAN :
           /\ table' = StaleDelete(table, c, ok)
           /\ task' = [task EXCEPT ![c] = AfterDelete(task[c], ok)]
    /\ UNCHANGED <<ctlVars, queueVars, websocketEndpoint, now, live, wsVars, sqsPc, records,
                   connectionData, postData, sqsPosts, scans, raced>>

\* removeStaleConnection ends and, with it, the task's sendMessageToClient.
SqsPurged(c) ==
    /\ sqsPc = "fanout"
    /\ task[c].at = "deleting"
    /\ task' = [task EXCEPT ![c] = AfterPurge(task[c])]
    /\ sqsPc' = AfterTask(AfterPurge(task[c]))
    /\ UNCHANGED <<ctlVars, queueVars, envVars, wsVars, records, connectionData, postData, sqsPosts, scans,
                   raced>>

\* A loop that does not await its postCalls.
NotAwaited(tasks) == TRUE

\* Promise.all(postCalls) resolves: every task of the record has settled.
AllSettled(tasks) == \A c \in ConnIds : tasks[c].at \in Settled \cup {"idle"}

\* Promise.all(postCalls): every task has settled (a task catches what its
\* delivery throws), and the loop goes on.
SqsJoin ==
    /\ sqsPc = "fanout"
    /\ AllSettled(task)
    /\ sqsPc' = "loop"
    /\ UNCHANGED <<ctlVars, queueVars, envVars, wsVars, records, connectionData, postData, task, sqsPosts,
                   scans, raced>>

\* The loop is over: handler returns 200 'SQS messages processed'.
SqsReturn ==
    /\ sqsPc = "loop"
    /\ records = << >>
    /\ sqsPc' = "done"
    /\ UNCHANGED <<ctlVars, queueVars, envVars, wsVars, records, connectionData, postData, task, sqsPosts,
                   scans, raced>>

---------------------------------------------------------------------------
\* The session router: handleWebSocketEvent and handlePingRoute

\* A handlePingRoute that answers 200 however its delivery call ended.
PingResponseAlwaysOk(call) == Response(200, "Pong sent")

\* What handlePingRoute returns once its delivery call has ended.
PingResponse(call) ==
    IF call.ended = "return" THEN Response(200, "Pong sent")
    ELSE Response(500, "Error handling ping")

\* An endpoint built without the stage.
PingEndpointNoStage(domainName, stage) == Https \o domainName

\* `https://${domainName}/${stage}`
PingEndpoint(domainName, stage) == Https \o domainName \o <<"/">> \o stage

\* handlePingRoute up to the answer of client.send.
HandlePingRoute(connectionId, domainName, stage) ==
    /\ wsPosts' = <<Post(PingEndpoint(domainName, stage), connectionId,
                         JObj([action |-> JStr("pong")]))>>
    /\ wsConn' = connectionId
    /\ wsWrite' = "none"
    /\ \E outcome \in PostOutcomes(connectionId) :
           /\ wsCall' = AfterSend(Sending, outcome)
           /\ IF AfterSend(Sending, outcome).at = "settled"
              THEN /\ wsPc' = "done"
                   /\ wsResp' = PingResponse(AfterSend(Sending, outcome))
              ELSE /\ wsPc' = "ping"
                   /\ wsResp' = NoResponse
    /\ UNCHANGED <<table, raced>>

\* A handler that makes no delivery call and leaves the table alone.
Respond(resp) ==
    /\ wsPc' = "done"
    /\ wsResp' = resp
    /\ wsWrite' = "none"
    /\ wsPosts' = << >>
    /\ wsConn' = ""
    /\ wsCall' = NoCall
    /\ UNCHANGED <<table, raced>>

\* A storeConnection that puts nothing.
StoreConnectionNothing(tbl, connectionId, ms) == tbl

\* storeConnection: the item is put under the connection id.
StoreConnection(tbl, connectionId, ms) == PutItem(tbl, StoredItem(connectionId, ms))

\* A removeConnection whose delete names no item of the table.
RemoveConnectionNothing(tbl, connectionId) == tbl

\* removeConnection: the item under the connection id is deleted.
RemoveConnection(tbl, connectionId) == DeleteItem(tbl, ConnectionKey(connectionId))

\* A router without its catch: 200 also when storeConnection failed.
ConnectResponseAlwaysOk(ok) == Response(200, "Connected")

\* What the $connect route returns: 200 after storeConnection, and the 500 of
\* the router's catch when storeConnection threw.
ConnectResponse(ok) ==
    IF ok THEN Response(200, "Connected") ELSE Response(500, "Internal server error")

\* A router that answers 200 whatever became of removeConnection.
DisconnectResponseAlwaysOk(ok) == Response(200, "Disconnected")

\* What the $disconnect route returns: 200 after removeConnection, and the 500
\* of the router's catch when removeConnection threw.
DisconnectResponse(ok) ==
    IF ok THEN Response(200, "Disconnected") ELSE Response(500, "Internal server error")

\* The $connect route: storeConnection, then 200; a failed put is a 500.
Connect(connectionId) ==
    /\ \E ok \in BOOLEAN :
         /\ wsResp' = ConnectResponse(ok)
         /\ wsWrite' = IF ok THEN "ok" ELSE "failed"
         /\ IF ok
            THEN /\ table' = StoreConnection(table, connectionId, now)
                 /\ raced' = [raced EXCEPT
                                 ![connectionId] = @ \/ task[connectionId].at \in InFlight]
            ELSE UNCHANGED <<table, raced>>
    /\ wsPc' = "done"
    /\ wsPosts' = << >>
    /\ wsConn' = ""
    /\ wsCall' = NoCall

\* The $disconnect route: removeConnection, then 200; a failed delete is a 500.
Disconnect(connectionId) ==
    /\ \E ok \in BOOLEAN :
         /\ wsResp' = DisconnectResponse(ok)
         /\ wsWrite' = IF ok THEN "ok" ELSE "failed"
         /\ table' = IF ok THEN RemoveConnection(table, connectionId) ELSE table
    /\ wsPc' = "done"
    /\ wsPosts' = << >>
    /\ wsConn' = ""
    /\ wsCall' = NoCall
    /\ UNCHANGED raced

\* JSON.parse(event.body || '{}')
DefaultBody(body) == JSONParse(OrElse(body, JStr("{}")).v)

\* A $default route that looks for no action in the body.
DefaultWithoutActions(e) ==
    IF DefaultBody(e.body) = SyntaxError \/ Throws(DefaultBody(e.body))
    THEN Respond(Response(400, "Invalid message format"))
    ELSE Respond(Response(200, "Message received"))

\* A $default route without the try/catch around its parse: the error reaches
\* the outer catch of handleWebSocketEvent.
DefaultUncaught(e) ==
    IF DefaultBody(e.body) = SyntaxError \/ Throws(DefaultBody(e.body))
    THEN Respond(Response(500, "Internal server error"))
    ELSE IF Prop(DefaultBody(e.body), "action") = JStr("ping")
    THEN HandlePingRoute(e.connectionId, e.domainName, e.stage)
    ELSE Respond(Response(200, "Message received"))

\* The $default route: a body that does not parse, or whose action cannot be
\* read, is answered 400; the ping action is handled as the ping route.
Default(e) ==
    IF DefaultBody(e.body) = SyntaxError \/ Throws(DefaultBody(e.body))
    THEN Respond(Response(400, "Invalid message format"))
    ELSE IF Prop(DefaultBody(e.body), "action") = JStr("ping")
    THEN HandlePingRoute(e.connectionId, e.domainName, e.stage)
    ELSE Respond(Response(200, "Message received"))

\* A response that does not name the route key.
UnhandledRouteUnnamed(routeKey) == Response(400, "Unhandled route")

\* The response to a route key the router does not handle.
UnhandledRoute(routeKey) == Response(400, "Unhandled route: " \o routeKey)

\* A router that registers the connection on every route.
RegisterOnEveryRoute(e) == Connect(e.connectionId)

\* handleWebSocketEvent, to the end or to the purge of handlePingRoute.
HandleWebSocketEvent(e) ==
    IF e.routeKey = "$connect" THEN Connect(e.connectionId)
    ELSE IF e.routeKey = "$disconnect" THEN Disconnect(e.connectionId)
    ELSE IF e.routeKey = "ping" THEN HandlePingRoute(e.connectionId, e.domainName, e.stage)
    ELSE IF e.routeKey = "$default" THEN Default(e)
    ELSE Respond(UnhandledRoute(e.routeKey))

\* handler (a session event) calls handleWebSocketEvent.
WsInvoke(e) ==
    /\ wsPc \in {"idle", "done"}
    /\ wsEvent' = e
    /\ HandleWebSocketEvent(e)
    /\ UNCHANGED <<ctlVars, queueVars, websocketEndpoint, now, live, sqsVars>>

\* The shape of an event, as far as handler looks at it: event.Records and
\* event.requestContext.
JArr(a) == [t |-> "array", a |-> a]

Shape(recs, ctx) == [Records |-> recs, requestContext |-> ctx]

Shapes ==
    {Shape(JUndef, JUndef),
     Shape(JArr(<< >>), JUndef),
     Shape(JArr(<<[eventSource |-> "aws:s3"]>>), JUndef),
     Shape(JUndef, JObj([connectionId |-> JStr("A")])),
     Shape(JArr(<<[eventSource |-> "aws:sqs"]>>), JUndef),
     Shape(JUndef, JObj([connectionId |-> JStr("A"), routeKey |-> JStr("ping")]))}

\* event.Records && event.Records[0]?.eventSource === 'aws:sqs'
IsSQSEvent(event) ==
    /\ ~Falsy(event.Records)
    /\ Len(event.Records.a) > 0
    /\ event.Records.a[1].eventSource = "aws:sqs"

\* event.requestContext && event.requestContext.routeKey !== undefined
IsWebSocketEvent(event) ==
    /\ ~Falsy(event.requestContext)
    /\ Prop(event.requestContext, "routeKey") # JUndef

\* handler on an event that has neither shape: 400 'Unknown event type'.
UnknownInvoke(event) ==
    /\ wsPc \in {"idle", "done"}
    /\ ~IsSQSEvent(event)
    /\ ~IsWebSocketEvent(event)
    /\ wsEvent' = Event("", "", << >>, << >>, JUndef)
    /\ Respond(Response(400, "Unknown event type"))
    /\ UNCHANGED <<ctlVars, queueVars, websocketEndpoint, now, live, sqsVars>>

\* removeStaleConnection's deleteItem of the ping reply reaches the table, or fails.
WsDelete ==
    /\ wsPc = "ping"
    /\ wsCall.at = "purging"
    /\ \E ok \in BOOLEAN :
           /\ table' = StaleDelete(table, wsConn, ok)
           /\ wsCall' = AfterDelete(wsCall, ok)
    /\ UNCHANGED <<ctlVars, queueVars, websocketEndpoint, now, live, sqsVars, wsPc, wsConn, wsEvent, wsResp,
                   wsWrite, wsPosts, raced>>

\* removeStaleConnection ends, then sendMessageToClient and handlePingRoute.
WsPurged ==
    /\ wsPc = "ping"
    /\ wsCall.at = "deleting"
    /\ wsCall' = AfterPurge(wsCall)
    /\ wsPc' = "done"
    /\ wsResp' = PingResponse(AfterPurge(wsCall))
    /\ UNCHANGED <<ctlVars, queueVars, envVars, sqsVars, wsConn, wsEvent, wsWrite, wsPosts, raced>>

---------------------------------------------------------------------------
\* The authorizer (functions/ws/authorizer.ts)

\* The texts a client can give as a token in its query string.
TokenTexts == {"allow-ws-connection", "Allow-WS-Connection", "allow-ws-connection ", ""}

QueryKeys == {"token", "Token"}

\* event.queryStringParameters: null when the request has no query string.
QueryStrings ==
    {JNull} \cup
    {JObj(f) : f \in UNION {[S -> {JStr(t) : t \in TokenTexts}] : S \in SUBSET QueryKeys}}

MethodArns == {"arn:api1/dev/$connect", "arn:api1/prod/$connect"}

AuthEvent(q, arn) == [queryStringParameters |-> q, methodArn |-> arn]

AuthEvents == {AuthEvent(q, arn) : q \in QueryStrings, arn \in MethodArns}

NoAuthEvent == AuthEvent(JNull, "")
NoPolicy == [principalId |-> ""]

\* generatePolicy: the context is attached when one is given.
GeneratePolicy(principalId, effect, resource, context) ==
    LET policyDocument ==
            [Version |-> "2012-10-17",
             Statement |-> <<[Action |-> "execute-api:Invoke",
                              Effect |-> effect,
                              Resource |-> resource]>>]
    IN  IF Falsy(context)
        THEN [principalId |-> principalId, policyDocument |-> policyDocument]
        ELSE [principalId |-> principalId, policyDocument |-> policyDocument,
              context |-> context]

\* An authorizer that accepts any token that is given.
TokenGiven(token) == ~Falsy(token)

\* token === 'allow-ws-connection'
TokenValid(token) == token = JStr("allow-ws-connection")

\* The handler of the authorizer.
AuthorizerHandler(event) ==
    LET queryStringParameters == OrElse(event.queryStringParameters, JObj(NoFields))
        token == Prop(queryStringParameters, "token")
        methodArn == event.methodArn
    IN  IF TokenValid(token)
        THEN GeneratePolicy("user", "Allow", methodArn,
                            JObj([userId |-> JStr("123456"), userRole |-> JStr("standard")]))
        ELSE GeneratePolicy("user", "Deny", methodArn, JUndef)

\* API Gateway invokes the authorizer for a request to connect.
Authorize(event) ==
    /\ authEvent' = event
    /\ authResp' = AuthorizerHandler(event)
    /\ UNCHANGED <<relayVars, queueVars, routes, cfnEvent, cfnResp, cfnCalls>>

---------------------------------------------------------------------------
\* The custom resource that binds the authorizer (functions/ws/update-route.ts)

Route(id, key, type, authorizer) ==
    [RouteId |-> id, RouteKey |-> key, AuthorizationType |-> type, AuthorizerId |-> authorizer]

\* The routes of the API as the stack creates it, without an authorizer.
StackRoutes ==
    {Route("r1", "$connect", "NONE", JUndef),
     Route("r2", "$default", "NONE", JUndef),
     Route("r3", "ping", "NONE", JUndef)}

\* The routes the API can have when the custom resource runs: those of the
\* stack, those of an API that has no $connect route, and those of a stack
\* whose $connect route is bound already.
Routings ==
    {StackRoutes,
     {r \in StackRoutes : r.RouteKey # "$connect"},
     {r \in StackRoutes : r.RouteKey # "$connect"}
         \cup {Route("r1", "$connect", "CUSTOM", JStr("auth1"))}}

\* The id of the API that has these routes.
TheApi == JStr("api1")

RequestTypes == {"Create", "Update", "Delete"}
ApiIds == {JUndef, JStr("api1"), JStr("api2")}
AuthorizerIds == {JUndef, JStr(""), JStr("auth1"), JStr("auth2")}

CfnEvent(type, apiId, authorizerId) ==
    [RequestType |-> type,
     ResourceProperties |-> [ApiId |-> apiId, AuthorizerId |-> authorizerId],
     LogicalResourceId |-> "UpdateRouteCR",
     StackId |-> "stack",
     RequestId |-> "request"]

CfnEvents ==
    {CfnEvent(type, a, z) : type \in RequestTypes, a \in ApiIds, z \in AuthorizerIds}

NoCfnEvent == CfnEvent("", JUndef, JUndef)
NoCfnResponse == [Status |-> ""]

\* sendResponse
SendResponse(event, status, data, reason) ==
    [Status |-> status,
     Reason |-> OrElse(reason, JStr("See the details in CloudWatch Log")).v,
     PhysicalResourceId |-> event.LogicalResourceId,
     StackId |-> event.StackId,
     RequestId |-> event.RequestId,
     LogicalResourceId |-> event.LogicalResourceId,
     Data |-> data]

\* What getRoutes can answer: the routes of the API with that id, or an error
\* (there is no API with that id, no id was given, or the call failed).
GetRoutes(rts, apiId) ==
    (IF apiId = TheApi THEN {[error |-> JUndef, Items |-> rts]} ELSE {})
        \cup {[error |-> JStr("getRoutes failed"), Items |-> {}]}

\* connectRoutes.find(route => route.RouteKey === '$connect')
FindConnectRoute(items) == {route \in items : route.RouteKey = "$connect"}

\* An updateRoute that changes nothing of the route.
UpdateRouteNothing(rts, params) == rts

\* updateRoute: the route with that id gets the authorization of the call.
UpdateRoute(rts, params) ==
    {IF route.RouteId = params.RouteId
     THEN [route EXCEPT !.AuthorizationType = params.AuthorizationType,
                        !.AuthorizerId = params.AuthorizerId]
     ELSE route : route \in rts}

\* The catch of the handler: FAILED with the message of the error.
Failed(event, calls, message) ==
    /\ cfnResp' = SendResponse(event, "FAILED", NoFields, message)
    /\ cfnCalls' = calls
    /\ UNCHANGED routes

\* event.RequestType is 'Create' or 'Update'.
Processed(requestType) == requestType = "Create" \/ requestType = "Update"

\* The handler of update-route.
UpdateRouteHandler(event) ==
    /\ cfnEvent' = event
    /\ IF ~Processed(event.RequestType)
       THEN /\ cfnResp' = SendResponse(event, "SUCCESS", NoFields, JUndef)
            /\ cfnCalls' = << >>
            /\ UNCHANGED routes
       ELSE LET apiId == event.ResourceProperties.ApiId
                authorizerId == event.ResourceProperties.AuthorizerId
            IN  \E got \in GetRoutes(routes, apiId) :
                  IF got.error # JUndef
                  THEN Failed(event, <<"getRoutes">>, got.error)
                  ELSE IF FindConnectRoute(got.Items) = {}
                  THEN Failed(event, <<"getRoutes">>, JStr("$connect route not found"))
                  ELSE \E connectRoute \in FindConnectRoute(got.Items) :
                         IF connectRoute.RouteId = "" \/ Falsy(apiId) \/ Falsy(authorizerId)
                         THEN Failed(event, <<"getRoutes">>,
                                     JStr("Missing required IDs for route update"))
                         ELSE \E ok \in BOOLEAN :
                                IF ok
                                THEN /\ routes' =
                                          UpdateRoute(routes,
                                              [RouteId |-> connectRoute.RouteId,
                                               AuthorizationType |-> "CUSTOM",
                                               AuthorizerId |-> authorizerId])
                                     /\ cfnResp' =
                                          SendResponse(event, "SUCCESS",
                                              [RouteId |-> connectRoute.RouteId], JUndef)
                                     /\ cfnCalls' = <<"getRoutes", "updateRoute">>
                                ELSE Failed(event, <<"getRoutes", "updateRoute">>,
                                            JStr("updateRoute failed"))
    /\ UNCHANGED <<relayVars, queueVars, authEvent, authResp>>

---------------------------------------------------------------------------
\* The publish queue and its dead-letter queue (lib/sample-apigw-ws-stack.ts)

maxReceiveCount == 1
batchSize == 10

Messages == {"m1", "m2", "m3"}

\* How an invocation of the handler on a batch can end: it returns, it throws,
\* or it is aborted at its timeout.
InvocationEnds == {"done", "failed", "timeout"}

\* A producer sends a message to the publish queue.
Send(msg) ==
    /\ qWhere[msg] = "unsent"
    /\ qWhere' = [qWhere EXCEPT ![msg] = "queued"]
    /\ UNCHANGED <<relayVars, ctlVars, qReceives, qHanded, qFailed>>

\* A redrive policy that allows one receive more.
MovesToDlqLater(receives) == receives > maxReceiveCount + 1

\* The redrive policy: a message whose receive count exceeds maxReceiveCount
\* is moved to the dead-letter queue instead of being received.
MovesToDlq(receives) == receives > maxReceiveCount

\* The event source receives up to batchSize visible messages: each receive
\* counts; a message over the threshold goes to the dead-letter queue, the
\* others are the batch of one invocation of the handler.
Receive(batch) ==
    /\ \A msg \in Messages : qWhere[msg] # "inflight"
    /\ batch # {}
    /\ Cardinality(batch) <= batchSize
    /\ \A msg \in batch : qWhere[msg] = "queued"
    /\ qReceives' = [msg \in Messages |->
                        IF msg \in batch THEN qReceives[msg] + 1 ELSE qReceives[msg]]
    /\ qWhere' = [msg \in Messages |->
                     IF msg \notin batch THEN qWhere[msg]
                     ELSE IF MovesToDlq(qReceives[msg] + 1) THEN "dlq" ELSE "inflight"]
    /\ qHanded' = [msg \in Messages |->
                      IF msg \in batch /\ ~MovesToDlq(qReceives[msg] + 1)
                      THEN qHanded[msg] + 1 ELSE qHanded[msg]]
    /\ UNCHANGED <<relayVars, ctlVars, qFailed>>

\* The invocation on the batch ends: the event source deletes the messages of
\* an invocation that returned; those of an invocation that threw or timed
\* out become visible again.
Invoked(how) ==
    /\ \E msg \in Messages : qWhere[msg] = "inflight"
    /\ qWhere' = [msg \in Messages |->
                     IF qWhere[msg] # "inflight" THEN qWhere[msg]
                     ELSE IF how = "done" THEN "deleted" ELSE "queued"]
    /\ qFailed' = [msg \in Messages |->
                      IF qWhere[msg] = "inflight" /\ how # "done"
                      THEN qFailed[msg] + 1 ELSE qFailed[msg]]
    /\ UNCHANGED <<relayVars, ctlVars, qReceives, qHanded>>

---------------------------------------------------------------------------
\* A cold start of the handler: the environment is read, no invocation has
\* run.  The table and the gateway exist before the handler does: the table
\* holds the items of any connections, and the gateway holds any sessions open.
Init ==
    /\ websocketEndpoint \in Endpoints
    /\ table \in SUBSET {StoredItem(c, 0) : c \in ConnIds}
    /\ now = 0
    /\ live \in SUBSET ConnIds
    /\ sqsPc = "idle"
    /\ records = << >>
    /\ connectionData = << >>
    /\ postData = JUndef
    /\ task = [c \in ConnIds |-> NoCall]
    /\ sqsPosts = << >>
    /\ scans = << >>
    /\ raced = [c \in ConnIds |-> FALSE]
    /\ wsPc = "idle"
    /\ wsConn = ""
    /\ wsCall = NoCall
    /\ wsEvent = Event("", "", << >>, << >>, JUndef)
    /\ wsResp = NoResponse
    /\ wsWrite = "none"
    /\ wsPosts = << >>
    /\ authEvent = NoAuthEvent
    /\ authResp = NoPolicy
    /\ routes = StackRoutes
    /\ cfnEvent = NoCfnEvent
    /\ cfnResp = NoCfnResponse
    /\ cfnCalls = << >>
    /\ qWhere = [msg \in Messages |-> "unsent"]
    /\ qReceives = [msg \in Messages |-> 0]
    /\ qHanded = [msg \in Messages |-> 0]
    /\ qFailed = [msg \in Messages |-> 0]

\* The handlers of the deployment alone: the relay is idle, and the API has any
\* of the routings.
InitControl ==
    /\ websocketEndpoint = Wss \o <<"d", "1", "/", "p">>
    /\ table = {}
    /\ now = 0
    /\ live = {}
    /\ sqsPc = "idle"
    /\ records = << >>
    /\ connectionData = << >>
    /\ postData = JUndef
    /\ task = [c \in ConnIds |-> NoCall]
    /\ sqsPosts = << >>
    /\ scans = << >>
    /\ raced = [c \in ConnIds |-> FALSE]
    /\ wsPc = "idle"
    /\ wsConn = ""
    /\ wsCall = NoCall
    /\ wsEvent = Event("", "", << >>, << >>, JUndef)
    /\ wsResp = NoResponse
    /\ wsWrite = "none"
    /\ wsPosts = << >>
    /\ authEvent = NoAuthEvent
    /\ authResp = NoPolicy
    /\ routes \in Routings
    /\ cfnEvent = NoCfnEvent
    /\ cfnResp = NoCfnResponse
    /\ cfnCalls = << >>
    /\ qWhere = [msg \in Messages |-> "unsent"]
    /\ qReceives = [msg \in Messages |-> 0]
    /\ qHanded = [msg \in Messages |-> 0]
    /\ qFailed = [msg \in Messages |-> 0]

---------------------------------------------------------------------------
\* The inputs of the specification in which the invocations run concurrently.
CoreBatches == {<<"{\"data\":\"x\"}">>}

CoreEvents ==
    {Event(c, r, <<"d", "1">>, <<"p">>, JUndef) :
        c \in ConnIds, r \in {"$connect", "$disconnect", "ping"}}

Gateway == \E c \in ConnIds : Open(c) \/ Close(c)

FanOut ==
    \/ SqsScan
    \/ \E c \in ConnIds : SqsSendReply(c) \/ SqsDelete(c) \/ SqsPurged(c)
    \/ SqsJoin
    \/ SqsReturn

Purge == WsDelete \/ WsPurged

\* Broadcasts alone, over every batch.
NextBroadcast == Gateway \/ (\E batch \in Batches : SqsInvoke(batch)) \/ FanOut

SpecBroadcast == Init /\ [][NextBroadcast]_vars

\* Session events alone, over every event.
NextSession == Gateway \/ Tick \/ (\E e \in Events : WsInvoke(e)) \/ Purge

SpecSession == Init /\ [][NextSession]_vars

\* A broadcast and session events, concurrently.
Next ==
    \/ Gateway
    \/ \E batch \in CoreBatches : SqsInvoke(batch)
    \/ FanOut
    \/ \E e \in CoreEvents : WsInvoke(e)
    \/ Purge

Spec == Init /\ [][Next]_vars

\* The authorizer and the custom resource, with the relay idle.
NextControl ==
    \/ \E event \in AuthEvents : Authorize(event)
    \/ \E event \in CfnEvents : UpdateRouteHandler(event)

SpecControl == InitControl /\ [][NextControl]_vars

\* The events of the specification in which events of every kind run
\* concurrently with a broadcast.
MixedEvents ==
    CoreEvents
    \cup {Event(c, "$default", <<"d", "1">>, <<"p">>, b) :
              c \in ConnIds, b \in {JStr("{\"action\":\"ping\"}"), JStr("hello")}}
    \cup {Event(c, "foo", <<"d", "1">>, <<"p">>, JUndef) : c \in ConnIds}

\* The stack as deployed: the endpoint it sets, and an empty registry.
InitMixed == Init /\ websocketEndpoint = Wss \o <<"d", "1", "/", "p">> /\ table = {}

\* A broadcast and events of every kind, concurrently, from the deployment on.
NextMixed ==
    \/ Gateway
    \/ \E batch \in CoreBatches : SqsInvoke(batch)
    \/ FanOut
    \/ \E e \in MixedEvents : WsInvoke(e)
    \/ \E event \in Shapes : UnknownInvoke(event)
    \/ Purge

SpecMixed == InitMixed /\ [][NextMixed]_vars

\* The publish queue, its event source and its dead-letter queue, with the
\* handler taken for how its invocations end.
NextQueue ==
    \/ \E msg \in Messages : Send(msg)
    \/ \E batch \in SUBSET Messages : Receive(batch)
    \/ \E how \in InvocationEnds : Invoked(how)

InitQueue ==
    /\ Init
    /\ websocketEndpoint = Wss \o <<"d", "1", "/", "p">>
    /\ table = {}
    /\ live = {}

SpecQueue == InitQueue /\ [][NextQueue]_vars

\* The broadcasts of the specification in which broadcasts keep arriving.
LiveBatches == {<<"null">>, <<"{\"msg\":\"hi\"}">>}

\* Broadcasts alone, with sessions that close and never reopen: the gateway
\* gives every session a connection id of its own.
NextLive ==
    \/ \E c \in ConnIds : Close(c)
    \/ \E batch \in LiveBatches : SqsInvoke(batch)
    \/ FanOut

\* Broadcasts keep arriving and every invocation runs on; the scan, the push
\* to a connection and the delete of a purge do not fail for ever.
FairLive ==
    /\ WF_vars(\E batch \in LiveBatches : SqsInvoke(batch))
    /\ WF_vars(SqsJoin)
    /\ WF_vars(SqsReturn)
    /\ SF_vars(SqsScan /\ scans' = Append(scans, "ok"))
    /\ \A c \in ConnIds :
          /\ SF_vars(SqsSendReply(c) /\ task'[c].outcome # "error")
          /\ SF_vars(SqsDelete(c) /\ task'[c].del = "ok")
          /\ WF_vars(SqsPurged(c))

SpecLive == Init /\ [][NextLive]_vars /\ FairLive

---------------------------------------------------------------------------
\* Properties

Enumerated(c) == \E i \in DOMAIN connectionData : connectionData[i] = c

AttemptsTo(posts, c) == Cardinality({i \in DOMAIN posts : posts[i].ConnectionId = c})

Failures == {"GoneException", "error"}

\* C1: for every broadcast record whose enumeration returned N connection ids,
\* exactly N deliveries are attempted, one and only one to each enumerated id,
\* and none when N = 0.  Stated for a handler whose push endpoint is configured.
\* It fails on a record whose body is the JSON text null.
C1_OneAttemptPerEnumeratedId ==
    websocketEndpoint # << >> =>
        /\ Len(sqsPosts) = Len(connectionData)
        /\ \A c \in ConnIds : AttemptsTo(sqsPosts, c) = IF Enumerated(c) THEN 1 ELSE 0

\* C2: within one broadcast, a delivery that fails (target-unreachable or any
\* other error) leaves every enumerated connection with its one delivery
\* attempt, all with the same payload, cancels no other delivery and does not
\* make the invocation fail.
C2_FailureIsolated ==
    \A c \in ConnIds : task[c].outcome \in Failures =>
        /\ sqsPc # "failed"
        /\ \A d \in ConnIds : Enumerated(d) =>
              /\ AttemptsTo(sqsPosts, d) = 1
              /\ task[d].at \in InFlight \cup {"settled"}
        /\ \A i, j \in DOMAIN sqsPosts : sqsPosts[i].Data = sqsPosts[j].Data

C2_Witness ==
    \E c, d \in ConnIds :
        /\ task[c].outcome = "GoneException"
        /\ task[d].outcome = "ok"
        /\ task[d].at = "settled"
        /\ sqsPc = "done"

\* The delivery calls of the model: the tasks of the fan-out and the ping reply.
CallTo(c) == {task[c]} \cup (IF wsConn = c THEN {wsCall} ELSE {})

\* C3: a delivery to A that fails with target-unreachable, from the fan-out or
\* from a ping reply, issues a delete of A's record; when that delete succeeds
\* and no register of A was applied during the call, A is absent from the
\* registry as the call returns.
C3_GonePurges ==
    [][\A c \in ConnIds :
         /\ (task'[c].outcome = "GoneException" /\ task'[c].at = "settled"
                => task'[c].del # "none")
         /\ (task[c].at # "settled" /\ task'[c].at = "settled"
               /\ task'[c].outcome = "GoneException" /\ task'[c].del = "ok" /\ ~raced'[c]
                => c \notin Keys(table'))
         /\ (wsConn' = c /\ wsCall'.outcome = "GoneException" /\ wsCall'.at = "settled"
                => wsCall'.del # "none")
         /\ (wsConn' = c /\ wsCall.at # "settled" /\ wsCall'.at = "settled"
               /\ wsCall'.outcome = "GoneException" /\ wsCall'.del = "ok"
                => c \notin Keys(table'))]_vars

C3_Witness ==
    \E c \in ConnIds :
        /\ task[c].at = "settled" /\ task[c].outcome = "GoneException" /\ task[c].del = "ok"
        /\ wsConn = c /\ wsPc = "done"
        /\ wsCall.at = "settled" /\ wsCall.outcome = "GoneException" /\ wsCall.del = "ok"
        /\ c \notin Keys(table)

\* What the next enumeration returns: getConnections on any scan of the table.
Enumerations == {GetConnections(items) : items \in ScanItems(table)}

\* C4: after a $connect for C handled successfully the next enumeration
\* includes C, and after a $disconnect for C handled successfully it does not
\* (no other operation on C in between).
C4_EnumerationFollowsRegistry ==
    wsPc = "done" /\ wsResp.statusCode = 200 =>
        /\ wsEvent.routeKey = "$connect" =>
              \A conns \in Enumerations :
                  \E i \in DOMAIN conns : conns[i] = wsEvent.connectionId
        /\ wsEvent.routeKey = "$disconnect" =>
              \A conns \in Enumerations :
                  \A i \in DOMAIN conns : conns[i] # wsEvent.connectionId

C4_Witness ==
    /\ wsPc = "done"
    /\ wsResp.statusCode = 200
    /\ wsEvent.routeKey = "$disconnect"
    /\ \E item \in table : item.connectedAt.S > 0

\* C5: a ping event for connection C on domain D and stage S makes exactly one
\* delivery attempt, to C at https://D/S with the payload {"action":"pong"},
\* and none to any other connection.
C5_PingRepliesPong ==
    wsEvent.routeKey = "ping" =>
        wsPosts = <<[endpoint |-> <<"h", "t", "t", "p", "s", ":", "/", "/">>
                                     \o wsEvent.domainName \o <<"/">> \o wsEvent.stage,
                     ConnectionId |-> wsEvent.connectionId,
                     Data |-> "{\"action\":\"pong\"}"]>>

C5_Witness ==
    /\ wsEvent.routeKey = "ping"
    /\ wsEvent.domainName = <<"d", "2">>
    /\ wsPc = "done"
    /\ wsCall.outcome = "ok"

PingFrame == JStr("{\"action\":\"ping\"}")

\* C6: for every connection, domain, stage and delivery outcome, handling a
\* $default event whose body is {"action":"ping"} is handling the ping route
\* event of the same routing context: a step of the one is a step of the other,
\* with the same delivery attempt, the same effect on the registry and the same
\* response.  (The steps of the purge that may follow read nothing of the event.)
C6_DefaultPingIsPing ==
    [][\A c \in ConnIds, d \in Domains, s \in Stages :
          HandleWebSocketEvent(Event(c, "$default", d, s, PingFrame))
              <=> HandleWebSocketEvent(Event(c, "ping", d, s, JUndef))]_vars

C6_Witness ==
    /\ wsEvent.routeKey = "$default"
    /\ wsEvent.body = PingFrame
    /\ wsPc = "done"
    /\ wsCall.outcome = "GoneException"
    /\ wsCall.del = "ok"
    /\ wsResp = Response(200, "Pong sent")
    /\ Len(wsPosts) = 1

\* handlePingRoute has returned.
PingHandled == wsPc = "done" /\ wsCall.at = "settled"

\* C7 as stated: the response to a ping is 200 when the pong delivery succeeded
\* and a failure response when it did not, a failure other than
\* target-unreachable being a 500.
C7_ResponseTellsDelivery ==
    PingHandled =>
        /\ wsResp.statusCode = 200 <=> wsCall.outcome = "ok"
        /\ wsCall.outcome = "error" => wsResp.statusCode = 500

\* C7 as amended: the response to a ping is 200 when the pong delivery succeeded
\* or failed with target-unreachable, and the generic 500 when it failed with
\* any other error.
C7_ResponseTellsHowCallEnded ==
    PingHandled =>
        /\ wsCall.outcome \in {"ok", "GoneException"} => wsResp = Response(200, "Pong sent")
        /\ wsCall.outcome = "error" => wsResp = Response(500, "Error handling ping")

C7_Witness ==
    /\ PingHandled
    /\ wsCall.outcome = "GoneException"
    /\ wsResp.statusCode = 200

\* C8: sendMessageToClient never surfaces a target-unreachable failure (it
\* returns normally, also when the purge's delete failed), and it throws any
\* other failure to its caller as it is, without a second attempt.
C8_FailureClassification ==
    \A c \in ConnIds :
        /\ \A call \in CallTo(c) : call.at = "settled" =>
              /\ call.outcome = "GoneException" =>
                    call.ended = "return" /\ call.error = "none"
              /\ call.outcome = "error" =>
                    call.ended = "throw" /\ call.error = "error" /\ call.del = "none"
        /\ AttemptsTo(sqsPosts, c) <= 1
        /\ wsConn = c => AttemptsTo(wsPosts, c) = 1 /\ Len(wsPosts) = 1

C8_Witness ==
    /\ \E c \in ConnIds :
          /\ task[c].at = "settled"
          /\ task[c].outcome = "GoneException"
          /\ task[c].del = "failed"
          /\ task[c].ended = "return"
    /\ wsCall.at = "settled"
    /\ wsCall.outcome = "error"
    /\ wsCall.ended = "throw"

\* The $default events of the model whose body is a text JSON.parse rejects.
UnparseableEvents ==
    {e \in Events : e.routeKey = "$default" /\ e.body.t = "string"
                        /\ e.body.v \in {"", "hello"}}

NothingDelivered == wsPosts' = << >> /\ table' = table

\* C9 as stated: a $default event whose body cannot be parsed is answered 400,
\* with no delivery attempt and no change of the registry.
C9_UnparseableIs400 ==
    [][\A e \in UnparseableEvents :
          WsInvoke(e) => wsResp'.statusCode = 400 /\ NothingDelivered]_vars

\* C9 as amended: a $default event whose body is not empty and cannot be parsed
\* is answered 400, with no delivery attempt and no change of the registry.
C9_NonEmptyUnparseableIs400 ==
    [][\A e \in UnparseableEvents :
          e.body.v # "" /\ WsInvoke(e) =>
              wsResp'.statusCode = 400 /\ NothingDelivered]_vars

C9_Witness ==
    /\ wsEvent.routeKey = "$default"
    /\ wsEvent.body = JStr("hello")
    /\ wsResp.statusCode = 400
    /\ table # {}

\* C10: a session event whose route key is none of $connect, $disconnect, ping
\* and $default is answered 400 with a body naming the route key, changes
\* nothing in the registry and makes no delivery attempt.
C10_UnhandledRoute ==
    [][\A e \in Events :
          e.routeKey \notin {"$connect", "$disconnect", "ping", "$default"} /\ WsInvoke(e) =>
              /\ wsResp'.statusCode = 400
              /\ wsResp'.body \in {"Unhandled route: foo", "Unhandled route: bar"}
              /\ (wsResp'.body = "Unhandled route: foo" <=> e.routeKey = "foo")
              /\ NothingDelivered]_vars

C10_Witness ==
    /\ wsEvent.routeKey = "foo"
    /\ wsResp = Response(400, "Unhandled route: foo")
    /\ wsPc = "done"
    /\ table # {}

\* The for loop takes up a record with this body and its enumeration returns
\* at least one id.
FansOut(body) ==
    /\ sqsPc = "loop"
    /\ records # << >>
    /\ Head(records) = body
    /\ records' = Tail(records)
    /\ connectionData' # << >>

\* Every id the enumeration returned is sent exactly this text, once, and
\* nothing else is sent.
RelayedToAll(text) ==
    /\ sqsPc' = "fanout"
    /\ Len(sqsPosts') = Len(connectionData')
    /\ \A i \in DOMAIN connectionData' :
          /\ sqsPosts'[i].ConnectionId = connectionData'[i]
          /\ sqsPosts'[i].Data = text
          /\ task'[connectionData'[i]].at = "sending"

\* C11: a broadcast record whose body is the raw text hello, which is not
\* JSON, is fanned out as the payload {"text":"hello"} to every connection id
\* its enumeration returned (the push endpoint being configured).
C11_UnparseableIsWrapped ==
    [][websocketEndpoint # << >> /\ FansOut("hello")
          => RelayedToAll("{\"text\":\"hello\"}")]_vars

C11_Witness ==
    /\ sqsPc = "done"
    /\ Len(connectionData) = 2
    /\ Len(sqsPosts) = 2
    /\ \A i \in DOMAIN sqsPosts : sqsPosts[i].Data = "{\"text\":\"hello\"}"
    /\ \A c \in ConnIds : task[c].outcome = "ok"

\* C12: for every broadcast record whose body parses to an object, the relayed
\* payload is the value of the body's data field when it has one, whatever
\* that value is, and the whole parsed body otherwise.  It fails on a body
\* whose data field is 0.  (The push endpoint being configured.)
C12_PayloadIsDataOrBody ==
    [][websocketEndpoint # << >> =>
          /\ FansOut("{\"data\":\"x\"}") => RelayedToAll("\"x\"")
          /\ FansOut("{\"msg\":\"hi\"}") => RelayedToAll("{\"msg\":\"hi\"}")
          /\ FansOut("{\"data\":0,\"msg\":\"hi\"}") => RelayedToAll("0")]_vars

\* C13 as stated: a $disconnect event is answered 200 unconditionally, whether
\* or not the connection had a record and whatever became of the delete.
C13_DisconnectAlways200 ==
    [][\A e \in Events :
          e.routeKey = "$disconnect" /\ WsInvoke(e) => wsResp'.statusCode = 200]_vars

\* C13 as amended: a $disconnect event whose delete succeeds is answered 200
\* 'Disconnected' whether or not the connection had a record, and leaves no
\* record of it; a $disconnect event whose delete fails is answered 500.
C13_DisconnectFollowsDelete ==
    [][\A e \in Events :
          e.routeKey = "$disconnect" /\ WsInvoke(e) =>
              /\ wsWrite' \in {"ok", "failed"}
              /\ wsWrite' = "ok" =>
                    /\ wsResp' = Response(200, "Disconnected")
                    /\ e.connectionId \notin Keys(table')
              /\ wsWrite' = "failed" => wsResp'.statusCode = 500]_vars

C13_Witness ==
    /\ wsPc = "done"
    /\ wsEvent.routeKey = "$disconnect"
    /\ wsWrite = "ok"
    /\ wsResp.statusCode = 200
    /\ table = {}
    /\ now = 0

\* C14: when the put of a $connect event fails, or the delete of a $disconnect
\* event, the event is answered 500 and not 200, and the registry is as it was
\* before the event.
C14_WriteFailureIs500 ==
    [][\A e \in Events :
          e.routeKey \in {"$connect", "$disconnect"} /\ WsInvoke(e) /\ wsWrite' = "failed" =>
              /\ wsResp' = Response(500, "Internal server error")
              /\ table' = table]_vars

C14_Witness ==
    /\ wsPc = "done"
    /\ wsEvent.routeKey = "$connect"
    /\ wsWrite = "failed"
    /\ wsResp.statusCode = 500
    /\ wsEvent.connectionId \notin Keys(table)
    /\ table # {}

\* How the last enumeration of the invocation ended.
LastScan(s) == IF s = << >> THEN "none" ELSE s[Len(s)]

\* The step is an enumeration of the registry that fails.
EnumerationFails == Len(scans') = Len(scans) + 1 /\ LastScan(scans') = "failed"

\* C15 as stated: a record whose enumeration fails gets no delivery attempt,
\* and the invocation ends in failure, so that the queue may deliver the
\* message again or move it to its dead-letter queue.
C15_EnumerationFailureFailsInvocation ==
    [][EnumerationFails => sqsPosts' = << >> /\ sqsPc' = "failed"]_vars

\* C15 as amended: a record whose enumeration fails gets no delivery attempt
\* and is skipped: the loop goes on to the next record, the registry is left
\* as it is, and the invocation does not fail on account of the enumeration.
C15_EnumerationFailureSkipsRecord ==
    [][/\ EnumerationFails =>
              /\ sqsPosts' = << >>
              /\ \A c \in ConnIds : task'[c] = NoCall
              /\ sqsPc' = "loop"
              /\ records' = Tail(records)
              /\ table' = table
       /\ sqsPc # "failed" /\ sqsPc' = "failed" => LastScan(scans') = "ok"]_vars

C15_Witness ==
    /\ sqsPc = "done"
    /\ scans = <<"failed", "ok">>
    /\ Len(sqsPosts) = 2
    /\ \A c \in ConnIds : task[c].outcome = "ok"

\* C16: an invocation on a queue batch makes one enumeration and one fan-out
\* for every record of the batch, whatever its body: it ends only when the
\* loop has got past every record.  It fails on a record whose body is the
\* JSON text null, at which the invocation ends with that record not fanned
\* out and the records after it not enumerated.
C16_EveryRecordEnumeratedAndFannedOut ==
    sqsPc \in {"done", "failed"} => records = << >>

\* The request has the query parameter token, with exactly the accepted text.
HasAcceptedToken(event) ==
    /\ event.queryStringParameters.t = "object"
    /\ "token" \in DOMAIN event.queryStringParameters.f
    /\ event.queryStringParameters.f["token"] = [t |-> "string", v |-> "allow-ws-connection"]

\* C17: the authorizer returns one statement on the method ARN of the request,
\* whose effect is Allow if and only if the query parameter token is exactly
\* allow-ws-connection, and Deny for any other token, no token or no query
\* string; the response carries a context only when the effect is Allow.
C17_AllowIffToken ==
    authEvent # NoAuthEvent =>
        LET statement == authResp.policyDocument.Statement
        IN  /\ Len(statement) = 1
            /\ statement[1].Action = "execute-api:Invoke"
            /\ statement[1].Resource = authEvent.methodArn
            /\ statement[1].Effect = IF HasAcceptedToken(authEvent) THEN "Allow" ELSE "Deny"
            /\ ("context" \in DOMAIN authResp) <=> HasAcceptedToken(authEvent)

C17_Witness ==
    /\ authEvent.methodArn = "arn:api1/prod/$connect"
    /\ authEvent.queryStringParameters.t = "object"
    /\ DOMAIN authEvent.queryStringParameters.f = {"token", "Token"}
    /\ authResp.policyDocument.Statement[1].Effect = "Allow"
    /\ authResp.context.f.userId = [t |-> "string", v |-> "123456"]

\* An id that is given: a text that is not empty.
Given(id) == id.t = "string" /\ id.v # ""

ConnectRouteOf(rts) == {r \in rts : r.RouteKey = "$connect"}
OtherRoutesOf(rts) == {r \in rts : r.RouteKey # "$connect"}

\* C18: on a Create or Update request that gives the id of the API and the id
\* of an authorizer, update-route either fails in one of its two calls to API
\* Gateway, or binds the $connect route to the type CUSTOM with that
\* authorizer, leaves the other routes as they are and reports SUCCESS with
\* the id of the route; it reports FAILED, and no route is changed, when the
\* API has no $connect route or an id is not given; a second run on the same
\* request changes no route; and on any other request type it reports SUCCESS
\* without a call to API Gateway.
C18_RouteRebinding ==
    [][\A e \in CfnEvents : UpdateRouteHandler(e) =>
          LET apiId == e.ResourceProperties.ApiId
              authorizerId == e.ResourceProperties.AuthorizerId
              status == cfnResp'.Status
          IN  /\ e.RequestType \notin {"Create", "Update"} =>
                    status = "SUCCESS" /\ cfnCalls' = << >> /\ routes' = routes
              /\ e.RequestType \in {"Create", "Update"} =>
                    /\ status \in {"SUCCESS", "FAILED"}
                    /\ status = "SUCCESS" =>
                          /\ OtherRoutesOf(routes') = OtherRoutesOf(routes)
                          /\ \E r \in ConnectRouteOf(routes) :
                                /\ ConnectRouteOf(routes') =
                                      {[RouteId |-> r.RouteId, RouteKey |-> "$connect",
                                        AuthorizationType |-> "CUSTOM",
                                        AuthorizerId |-> authorizerId]}
                                /\ cfnResp'.Data = [RouteId |-> r.RouteId]
                    /\ status = "FAILED" => routes' = routes
                    /\ ConnectRouteOf(routes) = {} \/ ~Given(apiId) \/ ~Given(authorizerId) =>
                          status = "FAILED"
                    /\ status = "FAILED" /\ ConnectRouteOf(routes) # {}
                          /\ apiId = [t |-> "string", v |-> "api1"] /\ Given(authorizerId) =>
                          cfnResp'.Reason \in {"getRoutes failed", "updateRoute failed"}
                    /\ e = cfnEvent /\ cfnResp.Status = "SUCCESS" => routes' = routes]_vars

C18_Witness ==
    /\ cfnEvent.RequestType = "Update"
    /\ cfnResp.Status = "SUCCESS"
    /\ cfnResp.Data = [RouteId |-> "r1"]
    /\ cfnCalls = <<"getRoutes", "updateRoute">>
    /\ \E r \in routes :
          /\ r.RouteKey = "$connect"
          /\ r.AuthorizationType = "CUSTOM"
          /\ r.AuthorizerId = [t |-> "string", v |-> "auth2"]

\* The step is a $connect event for c whose put is applied.
Registers(c) ==
    \E e \in CoreEvents :
        /\ e.routeKey = "$connect"
        /\ e.connectionId = c
        /\ WsInvoke(e)
        /\ wsWrite' = "ok"

\* The step is the delete, applied, of the purge that follows a
\* target-unreachable delivery of the fan-out to c.
PurgesStale(c) ==
    /\ task[c].at = "purging"
    /\ task'[c].at = "deleting"
    /\ task'[c].del = "ok"

\* C19: the register of C and the purge of C that a broadcast starts are
\* writes of one key that look at nothing: the put leaves C in the registry
\* also while a purge of C is under way, and the purge's delete leaves C out of
\* it also when a register of C was applied after the enumeration.  So the
\* registry ends as the later of the two writes leaves it: with C in it when
\* the put comes after the delete, and without C, though C is live at the
\* gateway, when the delete comes after the put.
C19_LastWriterWins ==
    [][\A c \in ConnIds :
          /\ Registers(c) => c \in Keys(table')
          /\ PurgesStale(c) => c \notin Keys(table')]_vars

\* Both ends in one state: the put for c came after the delete of its purge,
\* and the put for d, the last session event, came before the delete of its.
C19_Witness ==
    \E c, d \in ConnIds :
        /\ c # d
        /\ {c, d} \subseteq live
        /\ \A x \in {c, d} :
              /\ task[x].outcome = "GoneException"
              /\ task[x].del = "ok"
              /\ raced[x]
        /\ task[c].at = "deleting"
        /\ c \in Keys(table)
        /\ task[d].at \in {"deleting", "settled"}
        /\ d \notin Keys(table)
        /\ wsPc = "done"
        /\ wsEvent.routeKey = "$connect"
        /\ wsEvent.connectionId = d
        /\ wsWrite = "ok"

Targets(posts) == {posts[i].ConnectionId : i \in DOMAIN posts}

\* C20: the deliveries of a broadcast go to the connections its enumeration
\* returned, one to each, whatever the registry and the gateway hold while the
\* deliveries are under way: a register, an unregister, an open or a close
\* that comes after the enumeration changes neither the enumerated set nor the
\* attempts.  (The push endpoint being configured.)
C20_DeliversToEnumeratedSet ==
    [][sqsPc = "fanout" /\ websocketEndpoint # << >> =>
          /\ Len(sqsPosts) = Len(connectionData)
          /\ Targets(sqsPosts) = {c \in ConnIds : Enumerated(c)}
          /\ \A c \in ConnIds : AttemptsTo(sqsPosts, c) = IF Enumerated(c) THEN 1 ELSE 0
          /\ table' # table \/ live' # live =>
                sqsPosts' = sqsPosts /\ connectionData' = connectionData]_vars

\* During a fan-out, c has been registered since the enumeration and has no
\* attempt, and d has been unregistered and closed and has its attempt.
C20_Witness ==
    /\ sqsPc = "fanout"
    /\ \E c, d \in ConnIds :
          /\ c \in Keys(table) /\ c \in live
          /\ ~Enumerated(c)
          /\ AttemptsTo(sqsPosts, c) = 0
          /\ Enumerated(d)
          /\ d \notin Keys(table) /\ d \notin live
          /\ task[d].at = "sending"
          /\ AttemptsTo(sqsPosts, d) = 1

\* The step starts the enumeration of a record.
EnumerationStarts == Len(scans') = Len(scans) + 1

\* The step is the return of the invocation.
InvocationReturns == sqsPc # "done" /\ sqsPc' = "done"

\* C21: the enumeration of the next record of a batch starts, and the
\* invocation returns, only when every delivery launched for the records
\* before has settled, whatever its outcome: no delivery is in flight, and
\* every enumerated id's delivery call has ended.
C21_SettledBeforeNextRecord ==
    [][EnumerationStarts \/ InvocationReturns =>
          /\ sqsPc = "loop"
          /\ \A c \in ConnIds :
                /\ task[c].at \notin InFlight
                /\ Enumerated(c) => task[c].at \in Settled /\ task[c].ended # "none"]_vars

\* An invocation on two records has returned, both enumerated; the deliveries
\* of its second record ended in a thrown error and in a purge whose delete
\* failed.
C21_Witness ==
    /\ sqsPc = "done"
    /\ scans = <<"ok", "ok">>
    /\ Len(connectionData) = 2
    /\ \E c, d \in ConnIds :
          /\ task[c].outcome = "error" /\ task[c].ended = "throw"
          /\ task[d].outcome = "GoneException" /\ task[d].del = "failed"

\* c has a record in the registry and no session at the gateway.
Stale(c) == c \in Keys(table) /\ c \notin live

\* C22: with the push endpoint configured, broadcasts that keep arriving and
\* registry operations that do not fail for ever, every stale record is
\* eventually removed from the registry.  It fails when the broadcasts that
\* arrive have the body null: no delivery is attempted for them.
C22_StaleEventuallyRemoved ==
    \A c \in ConnIds :
        (websocketEndpoint # << >> /\ Stale(c)) ~> (c \notin Keys(table))

\* C23 as stated: a message whose invocation fails or times out can be handed
\* to the handler once more: it is in the dead-letter queue only after it was
\* handed to the handler a second time.
C23_OneRetryBeforeDeadLetter ==
    \A msg \in Messages : qWhere[msg] = "dlq" => qHanded[msg] = 2

\* C23 as amended: a message is handed to the handler at most once.  A message
\* whose invocation fails or times out is not handed to the handler again: it
\* is visible in the queue until its next receive, which moves it to the
\* dead-letter queue.
C23_NoRetryBeforeDeadLetter ==
    \A msg \in Messages :
        /\ qHanded[msg] <= 1
        /\ qFailed[msg] <= qHanded[msg]
        /\ qFailed[msg] = 1 => qWhere[msg] \in {"queued", "dlq"}
        /\ qWhere[msg] = "dlq" => qHanded[msg] = 1 /\ qFailed[msg] = 1

C23_Witness ==
    \E msg, other \in Messages :
        /\ qWhere[msg] = "dlq"
        /\ qHanded[msg] = 1
        /\ qFailed[msg] = 1
        /\ qWhere[other] = "deleted"
        /\ qHanded[other] = 1

RecordsOf(tbl, c) == {item \in tbl : item.connectionId.S = c}

\* C24: a $connect for an id whose put is applied leaves exactly one record
\* for that id, made at the time of this event, whether or not the id had a
\* record, and leaves the other records as they are; a $disconnect for an id
\* that has no record, whose delete is applied, is answered 200 and leaves the
\* registry as it is.
C24_RegisterUnregisterIdempotent ==
    [][\A e \in Events :
          WsInvoke(e) /\ wsWrite' = "ok" =>
              /\ e.routeKey = "$connect" =>
                    /\ Cardinality(RecordsOf(table', e.connectionId)) = 1
                    /\ \A item \in RecordsOf(table', e.connectionId) :
                          item.connectedAt.S = now
                    /\ table' \ RecordsOf(table', e.connectionId)
                          = table \ RecordsOf(table, e.connectionId)
              /\ e.routeKey = "$disconnect" /\ RecordsOf(table, e.connectionId) = {} =>
                    /\ wsResp'.statusCode = 200
                    /\ table' = table]_vars

\* An id registered again at a later time has the one record of that time,
\* beside the record of another id.
C24_Witness ==
    /\ wsPc = "done"
    /\ wsEvent.routeKey = "$connect"
    /\ wsWrite = "ok"
    /\ now > 0
    /\ Cardinality(table) = 2
    /\ \A item \in table :
          item.connectedAt.S = (IF item.connectionId.S = wsEvent.connectionId THEN now ELSE 0)

\* C25: a step that puts a record for an id that had none is the handling of
\* a $connect session event for that id whose put is applied: no ping,
\* $default, $disconnect, unhandled-route, unknown-shape or broadcast step adds
\* an id to the registry.
C25_OnlyConnectAdds ==
    [][\A c \in ConnIds :
          c \in Keys(table') /\ c \notin Keys(table) =>
              \E e \in MixedEvents :
                  /\ e.routeKey = "$connect"
                  /\ e.connectionId = c
                  /\ WsInvoke(e)
                  /\ wsWrite' = "ok"]_vars

\* During a broadcast, the only record of the registry, which was empty at the
\* deployment, is the one the last $connect event made.
C25_Witness ==
    /\ sqsPc # "idle"
    /\ wsPc = "done"
    /\ wsEvent.routeKey = "$connect"
    /\ wsWrite = "ok"
    /\ wsResp.statusCode = 200
    /\ Keys(table) = {wsEvent.connectionId}

\* The step is the answer of a delivery to c, in the fan-out of a broadcast or
\* in the handling of a ping frame, and the answer is an error other than
\* GoneException.
BroadcastDeliveryFails(c) == SqsSendReply(c) /\ task'[c].outcome = "error"

PingDeliveryFails(c) ==
    /\ \E e \in CoreEvents : e.routeKey = "ping" /\ e.connectionId = c /\ WsInvoke(e)
    /\ wsCall'.outcome = "error"

\* The delivery call has ended by throwing, with no purge started.
EndedWithoutPurge(call) ==
    call.at = "settled" /\ call.ended = "throw" /\ call.del = "none"

\* Every enumeration of tbl returns c.
AlwaysEnumerated(tbl, c) ==
    \A items \in ScanItems(tbl) : \E i \in DOMAIN items : GetConnections(items)[i] = c

\* C26: a delivery to c that fails with an error other than GoneException, in
\* the fan-out of a broadcast or in the handling of a ping frame, leaves the
\* registry as it is and ends the delivery call with no purge started; a
\* delete of a purge is only ever issued by a call that was answered
\* GoneException; so a record c had is there for the next enumeration.
C26_OtherFailureKeepsRecord ==
    [][\A c \in ConnIds :
          /\ BroadcastDeliveryFails(c) =>
                /\ table' = table
                /\ EndedWithoutPurge(task'[c])
                /\ c \in Keys(table) => AlwaysEnumerated(table', c)
          /\ PingDeliveryFails(c) =>
                /\ table' = table
                /\ EndedWithoutPurge(wsCall')
                /\ c \in Keys(table) => AlwaysEnumerated(table', c)
          /\ SqsDelete(c) => task[c].outcome = "GoneException"
          /\ WsDelete /\ wsConn = c => wsCall.outcome = "GoneException"]_vars

\* The delivery of a broadcast to an id and the pong to the same id have both
\* failed with an error other than GoneException, and the id's record is in
\* the registry.
C26_Witness ==
    \E c \in ConnIds :
        /\ task[c].outcome = "error"
        /\ EndedWithoutPurge(task[c])
        /\ wsPc = "done"
        /\ wsEvent.routeKey = "ping"
        /\ wsConn = c
        /\ wsCall.outcome = "error"
        /\ EndedWithoutPurge(wsCall)
        /\ c \in Keys(table)
        /\ AlwaysEnumerated(table, c)

====
